---------------------------- MODULE Spec2Model ----------------------------
(***************************************************************************)
(* Alpha-Beta-Chess: the rules engine (src/src/chessapp/engine.py) and the *)
(* alpha-beta search (src/src/chessapp/ai.py) as a state machine.          *)
(*                                                                         *)
(* A piece is the two-character string of the source ("wP", "bK"); a      *)
(* square is <<r, c>> with r = 0 the 8th rank and c = 0 the a-file, as in  *)
(* the source.  Lists are sequences in the order the source builds them;   *)
(* the board is the list of its eight rows, so that board[r][c] of the     *)
(* source is At(board, r, c) here.                                         *)
(***************************************************************************)
EXTENDS Integers, Sequences, FiniteSets, TLC

VARIABLES
    \* The fields of the caller's Board object.
    board, turn, history, castling_rights, en_passant,
    halfmove_clock, fullmove_number,
    \* The last call: make_move's argument, the return value, and a clone
    \* of the Board taken just before the call.
    arg, ret, before,
    \* The AggressiveAlphaBetaAI object: its max_depth and nodes_evaluated,
    \* the number of deadline checks of its last search that found time left
    \* (time_limit against the clock), and the move that search returned.
    max_depth, nodes_evaluated, deadline, ai_move,
    \* The Board object the caller last obtained from clone(), and the
    \* mutable objects (the squares, the history list, the castling_rights
    \* dict) that Board has in common with the caller's Board.
    twin, shared

boardVars == <<board, turn, history, castling_rights, en_passant,
               halfmove_clock, fullmove_number>>

aiVars == <<max_depth, nodes_evaluated, deadline, ai_move>>

cloneVars == <<twin, shared>>

vars == <<boardVars, arg, ret, before, aiVars, cloneVars>>

-----------------------------------------------------------------------------
(* Values *)

WHITE == "w"
BLACK == "b"

\* Python's None, by the type of the place that holds it.
NoPiece == ""
NoSquare == <<>>
NoPromo == "None"
\* arg and ret before the first call.
NoCall == "NoCall"

NoMove == [start |-> <<>>, end |-> <<>>, promotion |-> "None"]

PIECES == {"P", "N", "B", "R", "Q", "K"}

\* piece[0] and piece[1] of a piece string.
ColorOf == [p \in {col \o k : col \in {WHITE, BLACK}, k \in PIECES} |->
               IF p \in {WHITE \o k : k \in PIECES} THEN WHITE ELSE BLACK]

KindOf == [p \in {col \o k : col \in {WHITE, BLACK}, k \in PIECES} |->
              CHOOSE k \in PIECES : p \in {WHITE \o k, BLACK \o k}]

\* board[r][c]
At(brd, r, c) == brd[r + 1][c + 1]

\* board[r][c] = p
Put(brd, r, c, p) == [brd EXCEPT ![r + 1][c + 1] = p]

Move(start, end, promotion) ==
    [start |-> start, end |-> end, promotion |-> promotion]

\* The one element of a set of one element: The({F(x) : x \in {e}}) is
\* F(e), with e computed once.
The(S) == CHOOSE x \in S : TRUE

RECURSIVE ConcatRange(_, _, _, _)
\* The concatenation of F(xs[lo]), ..., F(xs[hi]), halving the range.
ConcatRange(F(_), xs, lo, hi) ==
    IF lo > hi THEN <<>>
    ELSE IF lo = hi THEN F(xs[lo])
    ELSE ConcatRange(F, xs, lo, (lo + hi) \div 2)
         \o ConcatRange(F, xs, (lo + hi) \div 2 + 1, hi)

\* The concatenation of F(xs[i]), F(xs[i+1]), ...: a generator's output in
\* loop order.
ConcatMap(F(_), xs, i) == ConcatRange(F, xs, i, Len(xs))

RECURSIVE FoldRange(_, _, _, _)
\* A loop "for i in lo .. hi: st = step(st, i)" from st, halving the range.
FoldRange(step(_, _), st, lo, hi) ==
    IF lo > hi THEN st
    ELSE IF lo = hi THEN step(st, lo)
    ELSE The({FoldRange(step, half, (lo + hi) \div 2 + 1, hi) :
              half \in {FoldRange(step, st, lo, (lo + hi) \div 2)}})

Range(s) == {s[i] : i \in DOMAIN s}

Abs(n) == IF n < 0 THEN -n ELSE n

\* range(8) x range(8) in row-major order.
Squares == [i \in 1 .. 64 |-> <<(i - 1) \div 8, (i - 1) % 8>>]

-----------------------------------------------------------------------------
(* Move.__repr__ *)

FileLetter(c) == <<"a", "b", "c", "d", "e", "f", "g", "h">>[c + 1]

RankDigit(n) == <<"1", "2", "3", "4", "5", "6", "7", "8">>[n]

\* Repr with the rank taken as row + 1: the board read upside down.
Repr_rowAsRank(m) ==
    FileLetter(m.start[2]) \o RankDigit(m.start[1] + 1)
    \o FileLetter(m.end[2]) \o RankDigit(m.end[1] + 1)
    \o (IF m.promotion # NoPromo THEN "=" \o m.promotion ELSE "")

Repr(m) ==
    LET sfile == FileLetter(m.start[2])
        srank == 8 - m.start[1]
        efile == FileLetter(m.end[2])
        erank == 8 - m.end[1]
        promo == IF m.promotion # NoPromo THEN "=" \o m.promotion ELSE ""
    IN  sfile \o RankDigit(srank) \o efile \o RankDigit(erank) \o promo

-----------------------------------------------------------------------------
(* Board *)

pieces_back == <<"R", "N", "B", "Q", "K", "B", "N", "R">>

\* Board.__init__ and Board._setup: the position a new Board holds.
NewBoard ==
    [board |-> [r \in 1 .. 8 |->
                  CASE r = 1 -> [c \in 1 .. 8 |-> BLACK \o pieces_back[c]]
                    [] r = 2 -> [c \in 1 .. 8 |-> BLACK \o "P"]
                    [] r = 7 -> [c \in 1 .. 8 |-> WHITE \o "P"]
                    [] r = 8 -> [c \in 1 .. 8 |-> WHITE \o pieces_back[c]]
                    [] OTHER -> [c \in 1 .. 8 |-> NoPiece]],
     turn |-> WHITE,
     history |-> <<>>,
     castling_rights |-> [K |-> TRUE, Q |-> TRUE, k |-> TRUE, q |-> TRUE],
     en_passant |-> NoSquare,
     halfmove_clock |-> 0,
     fullmove_number |-> 1]

\* Board.clone: a value copy of every field (values are immutable here, so
\* the copy cannot alias the source).
clone(b) ==
    [board |-> b.board,
     turn |-> b.turn,
     history |-> b.history,
     castling_rights |-> b.castling_rights,
     en_passant |-> b.en_passant,
     halfmove_clock |-> b.halfmove_clock,
     fullmove_number |-> b.fullmove_number]

\* clone_aliases for a clone that takes the source's castling_rights dict
\* as it is: b.castling_rights = self.castling_rights.
clone_aliases_sameRights == {"castling_rights"}

\* The mutable objects of the source a clone holds as its own: none, for
\* deepcopy, list() and dict() each build a new object.
clone_aliases == {}

\* The Board own, some of whose objects (parts) are objects of another Board
\* too, once that Board has become other: a write to a common object shows
\* in both Boards, a rebound attribute in one only.
Seen(parts, own, other) ==
    [own EXCEPT
        !.board = IF "board" \in parts THEN other.board ELSE @,
        !.history = IF "history" \in parts THEN other.history ELSE @,
        !.castling_rights = IF "castling_rights" \in parts
                            THEN other.castling_rights ELSE @]

in_bounds(r, c) == 0 <= r /\ r < 8 /\ 0 <= c /\ c < 8

piece_at(b, sq) == At(b.board, sq[1], sq[2])

Opponent(color) == IF color = WHITE THEN BLACK ELSE WHITE

\* The value king_position's "raise ValueError" is modelled by.
KingMissing == <<-1, -1>>

\* Board.king_position: the first square in row-major order holding the
\* king of that colour; ValueError when there is none.
king_position(b, color) ==
    LET found == {i \in 1 .. 64 : piece_at(b, Squares[i]) = color \o "K"}
    IN  IF found = {} THEN KingMissing
        ELSE Squares[CHOOSE i \in found : \A j \in found : i <= j]

-----------------------------------------------------------------------------
(* Board._piece_moves *)

PROMOS == <<"Q", "R", "B", "N">>

KNIGHT_DELTAS ==
    << <<2, 1>>, <<1, 2>>, <<-1, 2>>, <<-2, 1>>,
       <<-2, -1>>, <<-1, -2>>, <<1, -2>>, <<2, -1>> >>

KING_DELTAS ==
    << <<1, 0>>, <<1, 1>>, <<0, 1>>, <<-1, 1>>,
       <<-1, 0>>, <<-1, -1>>, <<0, -1>>, <<1, -1>> >>

BISHOP_DIRS == << <<1, 1>>, <<1, -1>>, <<-1, 1>>, <<-1, -1>> >>

ROOK_DIRS == << <<1, 0>>, <<-1, 0>>, <<0, 1>>, <<0, -1>> >>

QUEEN_DIRS == BISHOP_DIRS \o ROOK_DIRS

\* PromotionMoves with the queen as the only choice.
PromotionMoves_queenOnly(sq, to) == <<Move(sq, to, "Q")>>

\* The four promotion moves of a pawn reaching the last rank.
PromotionMoves(sq, to) == [i \in 1 .. 4 |-> Move(sq, to, PROMOS[i])]

\* PawnPushes without the double push.
PawnPushes_singleOnly(b, sq, color, attacks_only) ==
    LET nr == sq[1] + (IF color = WHITE THEN -1 ELSE 1)
    IN  IF in_bounds(nr, sq[2]) /\ ~attacks_only
           /\ At(b.board, nr, sq[2]) = NoPiece
        THEN (IF nr = 0 \/ nr = 7
              THEN PromotionMoves(sq, <<nr, sq[2]>>)
              ELSE <<Move(sq, <<nr, sq[2]>>, NoPromo)>>)
        ELSE <<>>

\* The kind == "P" branch, pushes: the single push and, nested in it, the
\* double push from the start rank.
PawnPushes(b, sq, color, attacks_only) ==
    LET r == sq[1]
        c == sq[2]
        forward == IF color = WHITE THEN -1 ELSE 1
        nr == r + forward
        start_rank == IF color = WHITE THEN 6 ELSE 1
        nnr == r + 2 * forward
    IN  IF in_bounds(nr, c) /\ ~attacks_only /\ At(b.board, nr, c) = NoPiece
        THEN (IF nr = 0 \/ nr = 7
              THEN PromotionMoves(sq, <<nr, c>>)
              ELSE <<Move(sq, <<nr, c>>, NoPromo)>>)
             \o (IF r = start_rank /\ At(b.board, nnr, c) = NoPiece
                 THEN <<Move(sq, <<nnr, c>>, NoPromo)>>
                 ELSE <<>>)
        ELSE <<>>

\* The kind == "P" branch, one iteration of "for dc in (-1, 1)": the capture
\* of an enemy piece and the move onto the en-passant square.
PawnCaptures(b, sq, color, dc) ==
    LET forward == IF color = WHITE THEN -1 ELSE 1
        enemy == Opponent(color)
        nr == sq[1] + forward
        nc == sq[2] + dc
        target == At(b.board, nr, nc)
    IN  IF in_bounds(nr, nc)
        THEN (IF target # NoPiece /\ ColorOf[target] = enemy
              THEN (IF nr = 0 \/ nr = 7
                    THEN PromotionMoves(sq, <<nr, nc>>)
                    ELSE <<Move(sq, <<nr, nc>>, NoPromo)>>)
              ELSE <<>>)
             \o (IF b.en_passant = <<nr, nc>>
                 THEN <<Move(sq, <<nr, nc>>, NoPromo)>>
                 ELSE <<>>)
        ELSE <<>>

\* The kind in ("N", "K") branch, the loop over deltas.
StepMoves(b, sq, color, deltas) ==
    LET enemy == Opponent(color)
        step(d) ==
            LET nr == sq[1] + d[1]
                nc == sq[2] + d[2]
            IN  IF in_bounds(nr, nc)
                   /\ (At(b.board, nr, nc) = NoPiece \/ ColorOf[At(b.board, nr, nc)] = enemy)
                THEN <<Move(sq, <<nr, nc>>, NoPromo)>>
                ELSE <<>>
    IN  ConcatMap(step, deltas, 1)

\* CastlingMoves decided by the right alone, whatever stands between king
\* and rook.
CastlingMoves_rightOnly(b, color) ==
    IF color = WHITE
    THEN (IF b.castling_rights.K
          THEN <<Move(<<7, 4>>, <<7, 6>>, NoPromo)>> ELSE <<>>)
         \o (IF b.castling_rights.Q
             THEN <<Move(<<7, 4>>, <<7, 2>>, NoPromo)>> ELSE <<>>)
    ELSE (IF b.castling_rights.k
          THEN <<Move(<<0, 4>>, <<0, 6>>, NoPromo)>> ELSE <<>>)
         \o (IF b.castling_rights.q
             THEN <<Move(<<0, 4>>, <<0, 2>>, NoPromo)>> ELSE <<>>)

\* The kind == "K" and not attacks_only block: castling, decided by the
\* right and the empty squares between king and rook alone.
CastlingMoves(b, color) ==
    IF color = WHITE
    THEN (IF b.castling_rights.K
             /\ At(b.board, 7, 5) = NoPiece /\ At(b.board, 7, 6) = NoPiece
          THEN <<Move(<<7, 4>>, <<7, 6>>, NoPromo)>> ELSE <<>>)
         \o (IF b.castling_rights.Q
                /\ At(b.board, 7, 3) = NoPiece /\ At(b.board, 7, 2) = NoPiece
                /\ At(b.board, 7, 1) = NoPiece
             THEN <<Move(<<7, 4>>, <<7, 2>>, NoPromo)>> ELSE <<>>)
    ELSE (IF b.castling_rights.k
             /\ At(b.board, 0, 5) = NoPiece /\ At(b.board, 0, 6) = NoPiece
          THEN <<Move(<<0, 4>>, <<0, 6>>, NoPromo)>> ELSE <<>>)
         \o (IF b.castling_rights.q
                /\ At(b.board, 0, 3) = NoPiece /\ At(b.board, 0, 2) = NoPiece
                /\ At(b.board, 0, 1) = NoPiece
             THEN <<Move(<<0, 4>>, <<0, 2>>, NoPromo)>> ELSE <<>>)

RECURSIVE Ray(_, _, _, _, _, _)
\* The "while self.in_bounds(nr, nc)" loop of a sliding piece along one
\* direction, from (nr, nc) on.
Ray(b, sq, enemy, d, nr, nc) ==
    IF ~in_bounds(nr, nc) THEN <<>>
    ELSE IF At(b.board, nr, nc) = NoPiece
         THEN <<Move(sq, <<nr, nc>>, NoPromo)>>
              \o Ray(b, sq, enemy, d, nr + d[1], nc + d[2])
         ELSE IF ColorOf[At(b.board, nr, nc)] = enemy
              THEN <<Move(sq, <<nr, nc>>, NoPromo)>>
              ELSE <<>>

\* The else branch: bishop, rook and queen.
SlideMoves(b, sq, color, directions) ==
    LET ray(d) == Ray(b, sq, Opponent(color), d, sq[1] + d[1], sq[2] + d[2])
    IN  ConcatMap(ray, directions, 1)

_piece_moves(b, sq, piece, attacks_only) ==
    LET color == ColorOf[piece]
        kind == KindOf[piece]
    IN  CASE kind = "P" ->
               PawnPushes(b, sq, color, attacks_only)
               \o PawnCaptures(b, sq, color, -1)
               \o PawnCaptures(b, sq, color, 1)
          [] kind = "N" -> StepMoves(b, sq, color, KNIGHT_DELTAS)
          [] kind = "K" ->
               StepMoves(b, sq, color, KING_DELTAS)
               \o (IF ~attacks_only THEN CastlingMoves(b, color) ELSE <<>>)
          [] kind = "B" -> SlideMoves(b, sq, color, BISHOP_DIRS)
          [] kind = "R" -> SlideMoves(b, sq, color, ROOK_DIRS)
          [] kind = "Q" -> SlideMoves(b, sq, color, QUEEN_DIRS)
          [] OTHER -> <<>>

\* Board.generate_pseudo_legal_moves
generate_pseudo_legal_moves(b) ==
    LET of(sq) ==
            LET piece == piece_at(b, sq)
            IN  IF piece # NoPiece /\ ColorOf[piece] = b.turn
                THEN _piece_moves(b, sq, piece, FALSE)
                ELSE <<>>
    IN  ConcatMap(of, Squares, 1)

\* _square_attacked passing over the pawns of by_color.
_square_attacked_pawnsPassedOver(b, sq, by_color) ==
    \E i \in 1 .. 64 :
        LET piece == piece_at(b, Squares[i])
        IN  /\ piece # NoPiece
            /\ ColorOf[piece] = by_color
            /\ KindOf[piece] # "P"
            /\ \E mv \in Range(_piece_moves(b, Squares[i], piece, TRUE)) :
                   mv.end = sq

\* Board._square_attacked: some piece of by_color has an attacks_only move
\* ending on sq.
_square_attacked(b, sq, by_color) ==
    \E i \in 1 .. 64 :
        LET piece == piece_at(b, Squares[i])
        IN  /\ piece # NoPiece
            /\ ColorOf[piece] = by_color
            /\ \E mv \in Range(_piece_moves(b, Squares[i], piece, TRUE)) :
                   mv.end = sq

\* Board.is_in_check
is_in_check(b, color) ==
    _square_attacked(b, king_position(b, color), Opponent(color))

-----------------------------------------------------------------------------
(* Board._apply_move *)

\* "en passant capture": the square _apply_move empties when a pawn moves
\* onto the empty en-passant square.
EnPassantCleared(piece, er, ec) ==
    LET direction == IF ColorOf[piece] = WHITE THEN 1 ELSE -1
    IN  <<er - direction, ec>>

\* CastleRook with the rook put one file off: on the king's square.
CastleRook_ontoKing(brd, er, ec) ==
    IF ec = 6
    THEN Put(Put(brd, er, 6, At(brd, er, 7)), er, 7, NoPiece)
    ELSE Put(Put(brd, er, 2, At(brd, er, 0)), er, 0, NoPiece)

\* "castling rook move": the rook's relocation when a king moves two files.
CastleRook(brd, er, ec) ==
    IF ec = 6
    THEN Put(Put(brd, er, 5, At(brd, er, 7)), er, 7, NoPiece)
    ELSE Put(Put(brd, er, 3, At(brd, er, 0)), er, 0, NoPiece)

\* UpdateRights where a king move clears the king-side right only.
UpdateRights_kingSideOnly(cr, piece, captured, sr, sc, er, ec) ==
    [K |-> cr.K /\ piece # "wK"
               /\ ~(piece = "wR" /\ sr = 7 /\ sc = 7)
               /\ ~(captured = "wR" /\ er = 7 /\ ec = 7),
     Q |-> cr.Q /\ ~(piece = "wR" /\ sr = 7 /\ sc = 0)
               /\ ~(captured = "wR" /\ er = 7 /\ ec = 0),
     k |-> cr.k /\ piece # "bK"
               /\ ~(piece = "bR" /\ sr = 0 /\ sc = 7)
               /\ ~(captured = "bR" /\ er = 0 /\ ec = 7),
     q |-> cr.q /\ ~(piece = "bR" /\ sr = 0 /\ sc = 0)
               /\ ~(captured = "bR" /\ er = 0 /\ ec = 0)]

\* UpdateRights without lines 295-302: a rook captured on its corner leaves
\* the right as it was.
UpdateRights_ignoresCaptures(cr, piece, captured, sr, sc, er, ec) ==
    [K |-> cr.K /\ piece # "wK" /\ ~(piece = "wR" /\ sr = 7 /\ sc = 7),
     Q |-> cr.Q /\ piece # "wK" /\ ~(piece = "wR" /\ sr = 7 /\ sc = 0),
     k |-> cr.k /\ piece # "bK" /\ ~(piece = "bR" /\ sr = 0 /\ sc = 7),
     q |-> cr.q /\ piece # "bK" /\ ~(piece = "bR" /\ sr = 0 /\ sc = 0)]

\* "update castling rights if rooks/king moved or captured".
UpdateRights(cr, piece, captured, sr, sc, er, ec) ==
    [K |-> cr.K /\ piece # "wK"
               /\ ~(piece = "wR" /\ sr = 7 /\ sc = 7)
               /\ ~(captured = "wR" /\ er = 7 /\ ec = 7),
     Q |-> cr.Q /\ piece # "wK"
               /\ ~(piece = "wR" /\ sr = 7 /\ sc = 0)
               /\ ~(captured = "wR" /\ er = 7 /\ ec = 0),
     k |-> cr.k /\ piece # "bK"
               /\ ~(piece = "bR" /\ sr = 0 /\ sc = 7)
               /\ ~(captured = "bR" /\ er = 0 /\ ec = 7),
     q |-> cr.q /\ piece # "bK"
               /\ ~(piece = "bR" /\ sr = 0 /\ sc = 0)
               /\ ~(captured = "bR" /\ er = 0 /\ ec = 0)]

\* EnPassantSquare naming the square the pawn lands on, not the one it skipped.
EnPassantSquare_landingSquare(piece, sr, er, ec) ==
    IF piece # NoPiece /\ KindOf[piece] = "P" /\ Abs(er - sr) = 2
    THEN <<er, ec>>
    ELSE NoSquare

\* "update en-passant square": None, unless a pawn moved two ranks, and then
\* the square between its start and its end.
EnPassantSquare(piece, sr, er, ec) ==
    IF piece # NoPiece /\ KindOf[piece] = "P" /\ Abs(er - sr) = 2
    THEN <<(er + sr) \div 2, ec>>
    ELSE NoSquare

\* HalfmoveClock reset by pawn moves only.
HalfmoveClock_pawnMovesOnly(clock, piece, captured) ==
    IF piece # NoPiece /\ KindOf[piece] = "P" THEN 0 ELSE clock + 1

\* "half/full move counters": the clock after a move of piece that captured
\* captured.
HalfmoveClock(clock, piece, captured) ==
    IF (piece # NoPiece /\ KindOf[piece] = "P") \/ captured # NoPiece
    THEN 0
    ELSE clock + 1

_apply_move(b, move) ==
    LET sr == move.start[1]
        sc == move.start[2]
        er == move.end[1]
        ec == move.end[2]
        piece == At(b.board, sr, sc)
        captured0 == At(b.board, er, ec)
        isPawn == piece # NoPiece /\ KindOf[piece] = "P"
        isEnPassant ==
            isPawn /\ b.en_passant = <<er, ec>> /\ captured0 = NoPiece
        cleared == EnPassantCleared(piece, er, ec)
        b1 == IF isEnPassant
              THEN Put(b.board, cleared[1], cleared[2], NoPiece)
              ELSE b.board
        captured == IF isEnPassant
                    THEN (IF ColorOf[piece] = WHITE THEN "b" ELSE "w") \o "P"
                    ELSE captured0
        \* move piece
        b2 == Put(Put(b1, er, ec, piece), sr, sc, NoPiece)
        \* promotion
        b3 == IF isPawn /\ move.promotion # NoPromo
              THEN Put(b2, er, ec, ColorOf[piece] \o move.promotion)
              ELSE b2
        \* castling rook move
        b4 == IF piece # NoPiece /\ KindOf[piece] = "K" /\ Abs(ec - sc) = 2
              THEN CastleRook(b3, er, ec)
              ELSE b3
    IN  [board |-> b4,
         turn |-> IF b.turn = WHITE THEN BLACK ELSE WHITE,
         history |-> Append(b.history, <<move, captured, "None">>),
         castling_rights |->
             UpdateRights(b.castling_rights, piece, captured, sr, sc, er, ec),
         en_passant |-> EnPassantSquare(piece, sr, er, ec),
         halfmove_clock |-> HalfmoveClock(b.halfmove_clock, piece, captured),
         fullmove_number |-> IF b.turn = BLACK
                             THEN b.fullmove_number + 1
                             ELSE b.fullmove_number]

-----------------------------------------------------------------------------
(* Legal moves and the game result *)

\* _is_legal testing the side to move after the move, not the mover.
_is_legal_sideToMove(b, move) ==
    \E c \in {_apply_move(clone(b), move)} : ~is_in_check(c, c.turn)

\* Board._is_legal
_is_legal(b, move) ==
    ~is_in_check(_apply_move(clone(b), move), b.turn)

\* Board.generate_legal_moves
generate_legal_moves(b) ==
    SelectSeq(generate_pseudo_legal_moves(b), LAMBDA mv : _is_legal(b, mv))

\* Board.is_checkmate
is_checkmate(b) ==
    IF generate_legal_moves(b) # <<>> THEN FALSE ELSE is_in_check(b, b.turn)

\* Board.is_stalemate
is_stalemate(b) ==
    IF generate_legal_moves(b) # <<>> THEN FALSE ELSE ~is_in_check(b, b.turn)

NoResult == "None"

\* result with the winners exchanged.
result_winnersSwapped(b) ==
    IF generate_legal_moves(b) # <<>> THEN NoResult
    ELSE IF is_in_check(b, b.turn)
         THEN (IF b.turn = WHITE THEN "1-0" ELSE "0-1")
         ELSE "1/2-1/2"

\* Board.result
result(b) ==
    IF generate_legal_moves(b) # <<>> THEN NoResult
    ELSE IF is_in_check(b, b.turn)
         THEN (IF b.turn = BLACK THEN "1-0" ELSE "0-1")
         ELSE "1/2-1/2"

-----------------------------------------------------------------------------
(* AggressiveAlphaBetaAI *)

\* float('inf'): larger than every score.
Inf == 1000000

\* The largest deadline: one no search reaches (the deadline never expires).
Never == Inf

Max(x, y) == IF x >= y THEN x ELSE y

Min(x, y) == IF x <= y THEN x ELSE y

\* The sum of f(lo), ..., f(hi), halving the range.
RECURSIVE SumOver(_, _, _)
SumOver(f(_), lo, hi) ==
    IF lo > hi THEN 0
    ELSE IF lo = hi THEN f(lo)
    ELSE SumOver(f, lo, (lo + hi) \div 2)
         + SumOver(f, (lo + hi) \div 2 + 1, hi)

\* self.piece_values
piece_values ==
    [P |-> 100, N |-> 320, B |-> 330, R |-> 500, Q |-> 900, K |-> 20000]

\* The material of one colour, as the first loop of evaluate_position sums it.
Material(b, color) ==
    LET value(i) ==
            LET piece == piece_at(b, Squares[i])
            IN  IF piece # NoPiece /\ ColorOf[piece] = color
                THEN piece_values[KindOf[piece]]
                ELSE 0
    IN  SumOver(value, 1, 64)

\* The "be very aggressive" bonuses of evaluate_position, added when the
\* material difference exceeds 500 and the side to move is the side ahead.
AggressionBonus(b, white_material, black_material) ==
    LET enemy_color == IF b.turn = WHITE THEN BLACK ELSE WHITE
        enemy_king_pos == king_position(b, enemy_color)
        my_king_pos == king_position(b, b.turn)
        king_distance == Abs(my_king_pos[1] - enemy_king_pos[1])
                         + Abs(my_king_pos[2] - enemy_king_pos[2])
        edge_distance == Min(Min(enemy_king_pos[1], 7 - enemy_king_pos[1]),
                             Min(enemy_king_pos[2], 7 - enemy_king_pos[2]))
        queen(i) ==
            IF piece_at(b, Squares[i]) = b.turn \o "Q"
            THEN (8 - (Abs(Squares[i][1] - enemy_king_pos[1])
                       + Abs(Squares[i][2] - enemy_king_pos[2]))) * 40
            ELSE 0
    IN  IF enemy_king_pos = KingMissing \/ my_king_pos = KingMissing
        THEN 0
        ELSE IF \/ b.turn = WHITE /\ white_material > black_material
                \/ b.turn = BLACK /\ black_material > white_material
             THEN (10 - king_distance) * 30 + (4 - edge_distance) * 50
                  + SumOver(queen, 1, 64)
             ELSE 0

\* AggressiveAlphaBetaAI.evaluate_position
evaluate_position(b) ==
    LET white_material == Material(b, WHITE)
        black_material == Material(b, BLACK)
        material_diff == Abs(white_material - black_material)
        num_moves == Len(generate_legal_moves(b))
    IN  (white_material - black_material)
        + (IF material_diff > 500
           THEN AggressionBonus(b, white_material, black_material)
           ELSE 0)
        + num_moves * 5

\* move_score of order_moves
move_score(b, move) ==
    LET captured == piece_at(b, move.end)
        c == _apply_move(clone(b), move)
    IN  (IF captured # NoPiece THEN piece_values[KindOf[captured]] * 10 ELSE 0)
        + (IF move.promotion # NoPromo THEN 800 ELSE 0)
        + (IF is_in_check(c, c.turn)
           THEN 100 + (IF generate_legal_moves(c) = <<>> THEN 50000 ELSE 0)
           ELSE 0)

\* sorted(moves, key=..., reverse=True): the stable sort of moves by
\* descending key, keys[i] being the key of moves[i].
SortedDescending(moves, keys) ==
    LET n == Len(moves)
        place(i) ==
            << 1 + Cardinality({j \in 1 .. n : keys[j] > keys[i]})
                 + Cardinality({j \in 1 .. i - 1 : keys[j] = keys[i]}) >>
        places == ConcatMap(place, [i \in 1 .. n |-> i], 1)
        at(k) == <<moves[CHOOSE i \in 1 .. n : places[i] = k]>>
    IN  ConcatMap(at, [k \in 1 .. n |-> k], 1)

\* AggressiveAlphaBetaAI.order_moves
order_moves(b, moves) ==
    LET key(move) == <<move_score(b, move)>>
    IN  The({SortedDescending(moves, keys) :
             keys \in {ConcatMap(key, moves, 1)}})

\* "time.time() - self.start_time > self.time_limit" at the check that
\* follows `checks` earlier ones: the deadline of a call is the number of
\* checks that still find time left.
TimeUp(ai, checks) == checks + 1 > ai.deadline

\* The score alpha_beta returns for a finished game.
MateScore(ai, res, depth, maximizing_player) ==
    IF res = "1-0"
    THEN (IF maximizing_player
          THEN 10000 - (ai.max_depth - depth)
          ELSE -10000 + (ai.max_depth - depth))
    ELSE IF res = "0-1"
         THEN (IF maximizing_player
               THEN -10000 + (ai.max_depth - depth)
               ELSE 10000 - (ai.max_depth - depth))
         ELSE 0

RECURSIVE alpha_beta(_, _, _, _, _, _, _, _)

\* SearchMove leaving the loop as soon as a move improves on the bound:
\* 'eval_score > alpha' (or '< beta') for 'beta <= alpha'.
SearchMove_cutsOnImprovement(ai, b, depth, moves, maximizing_player, rootChecks, st, i) ==
    IF st.done THEN st
    ELSE The({
        IF maximizing_player
        THEN [best |-> Max(st.best, r.score),
              alpha |-> Max(st.alpha, r.score),
              beta |-> st.beta,
              nodes |-> r.nodes,
              done |-> r.score > st.alpha]
        ELSE [best |-> Min(st.best, r.score),
              alpha |-> st.alpha,
              beta |-> Min(st.beta, r.score),
              nodes |-> r.nodes,
              done |-> r.score < st.beta] :
        r \in {alpha_beta(ai, c, depth - 1, st.alpha, st.beta,
                          ~maximizing_player, st.nodes, rootChecks) :
               c \in {_apply_move(clone(b), moves[i])}}})

\* One round of alpha_beta's "for move in moves" loops, for moves[i]: st is
\* max_eval or min_eval (best), alpha, beta and nodes_evaluated before it,
\* and whether "if beta <= alpha: break" has left the loop (done).
SearchMove(ai, b, depth, moves, maximizing_player, rootChecks, st, i) ==
    IF st.done THEN st
    ELSE The({
        IF maximizing_player
        THEN [best |-> Max(st.best, r.score),
              alpha |-> Max(st.alpha, r.score),
              beta |-> st.beta,
              nodes |-> r.nodes,
              done |-> st.beta <= Max(st.alpha, r.score)]
        ELSE [best |-> Min(st.best, r.score),
              alpha |-> st.alpha,
              beta |-> Min(st.beta, r.score),
              nodes |-> r.nodes,
              done |-> Min(st.beta, r.score) <= st.alpha] :
        r \in {alpha_beta(ai, c, depth - 1, st.alpha, st.beta,
                          ~maximizing_player, st.nodes, rootChecks) :
               c \in {_apply_move(clone(b), moves[i])}}})

\* The "for move in moves" loops of alpha_beta over the ordered moves.
SearchMoves(ai, b, depth, moves, alpha, beta, maximizing_player, nodes, rootChecks) ==
    LET round(st, i) ==
            SearchMove(ai, b, depth, moves, maximizing_player, rootChecks,
                       st, i)
    IN  FoldRange(round,
                  [best |-> IF maximizing_player THEN -Inf ELSE Inf,
                   alpha |-> alpha, beta |-> beta, nodes |-> nodes,
                   done |-> FALSE],
                  1, Len(moves))

\* AggressiveAlphaBetaAI.alpha_beta: the returned score with the value of
\* nodes_evaluated after the call.  nodes is nodes_evaluated before the call
\* and rootChecks the deadline checks get_move's own loop has made.
alpha_beta(ai, b, depth, alpha, beta, maximizing_player, nodes, rootChecks) ==
    IF TimeUp(ai, rootChecks + nodes) THEN [score |-> 0, nodes |-> nodes + 1]
    ELSE The({
        IF res # NoResult
        THEN [score |-> MateScore(ai, res, depth, maximizing_player),
              nodes |-> nodes + 1]
        ELSE IF depth <= 0
        THEN [score |-> evaluate_position(b), nodes |-> nodes + 1]
        ELSE The({
            IF moves = <<>>
            THEN [score |-> IF is_in_check(b, b.turn)
                            THEN -10000 + (ai.max_depth - depth)
                            ELSE 0,
                  nodes |-> nodes + 1]
            ELSE The({[score |-> st.best, nodes |-> st.nodes] :
                      st \in {SearchMoves(ai, b, depth, ordered, alpha, beta,
                                          maximizing_player, nodes + 1,
                                          rootChecks) :
                              ordered \in {order_moves(b, moves)}}}) :
            moves \in {generate_legal_moves(b)}}) :
        res \in {result(b)}})

\* RootMove giving up the move it holds when the deadline check fails.
RootMove_dropsBestOnTimeout(ai, moves, st, i) ==
    IF st.done THEN st
    ELSE IF TimeUp(ai, (i - 1) + st.nodes)
    THEN [st EXCEPT !.done = TRUE, !.best_move = NoMove]
    ELSE The({
        [best_move |-> IF -r.score > st.best_score
                       THEN moves[i] ELSE st.best_move,
         best_score |-> Max(st.best_score, -r.score),
         alpha |-> Max(st.alpha, -r.score),
         beta |-> st.beta,
         nodes |-> r.nodes,
         done |-> FALSE,
         board |-> st.board] :
        r \in {alpha_beta(ai, c, ai.max_depth - 1, -st.beta, -st.alpha,
                          FALSE, st.nodes, i) :
               c \in {_apply_move(clone(st.board), moves[i])}}})

\* RootMove taking a move that only equals the best score: '>=' for '>'.
RootMove_lastOfEqualsWins(ai, moves, st, i) ==
    IF st.done THEN st
    ELSE IF TimeUp(ai, (i - 1) + st.nodes) THEN [st EXCEPT !.done = TRUE]
    ELSE The({
        [best_move |-> IF -r.score >= st.best_score
                       THEN moves[i] ELSE st.best_move,
         best_score |-> Max(st.best_score, -r.score),
         alpha |-> Max(st.alpha, -r.score),
         beta |-> st.beta,
         nodes |-> r.nodes,
         done |-> FALSE,
         board |-> st.board] :
        r \in {alpha_beta(ai, c, ai.max_depth - 1, -st.beta, -st.alpha,
                          FALSE, st.nodes, i) :
               c \in {_apply_move(clone(st.board), moves[i])}}})

\* RootMove applying the move to the caller's Board, not to a clone of it.
RootMove_appliesInPlace(ai, moves, st, i) ==
    IF st.done THEN st
    ELSE IF TimeUp(ai, (i - 1) + st.nodes) THEN [st EXCEPT !.done = TRUE]
    ELSE The({
        [best_move |-> IF -r.score > st.best_score
                       THEN moves[i] ELSE st.best_move,
         best_score |-> Max(st.best_score, -r.score),
         alpha |-> Max(st.alpha, -r.score),
         beta |-> st.beta,
         nodes |-> r.nodes,
         done |-> FALSE,
         board |-> _apply_move(st.board, moves[i])] :
        r \in {alpha_beta(ai, c, ai.max_depth - 1, -st.beta, -st.alpha,
                          FALSE, st.nodes, i) :
               c \in {_apply_move(st.board, moves[i])}}})

\* One round of get_move's "for move in ordered_moves" loop, for moves[i]:
\* st is best_move, best_score, alpha, beta and nodes_evaluated before it,
\* whether the deadline check has left the loop (done), and the Board passed
\* to get_move as the rounds so far have left it (board).
RootMove(ai, moves, st, i) ==
    IF st.done THEN st
    ELSE IF TimeUp(ai, (i - 1) + st.nodes) THEN [st EXCEPT !.done = TRUE]
    ELSE The({
        [best_move |-> IF -r.score > st.best_score
                       THEN moves[i] ELSE st.best_move,
         best_score |-> Max(st.best_score, -r.score),
         alpha |-> Max(st.alpha, -r.score),
         beta |-> st.beta,
         nodes |-> r.nodes,
         done |-> FALSE,
         board |-> st.board] :
        r \in {alpha_beta(ai, c, ai.max_depth - 1, -st.beta, -st.alpha,
                          FALSE, st.nodes, i) :
               c \in {_apply_move(clone(st.board), moves[i])}}})

\* get_move without the early return of a sole legal move.
get_move_searchesSoleMove(ai, b) ==
    The({
        IF legal_moves = <<>>
        THEN [move |-> NoMove, score |-> -Inf, nodes |-> 0, board |-> b]
        ELSE The({[move |-> st.best_move, score |-> st.best_score,
                   nodes |-> st.nodes, board |-> st.board] :
                  st \in {FoldRange(LAMBDA s, i :
                                        RootMove(ai, ordered, s, i),
                                    [best_move |-> legal_moves[1],
                                     best_score |-> -Inf,
                                     alpha |-> -Inf, beta |-> Inf,
                                     nodes |-> 0, done |-> FALSE,
                                     board |-> b],
                                    1, Len(ordered)) :
                          ordered \in {order_moves(b, legal_moves)}}}) :
        legal_moves \in {generate_legal_moves(b)}})

\* AggressiveAlphaBetaAI.get_move: the returned move (NoMove for None), its
\* score, nodes_evaluated after the call, and the Board passed to it as the
\* call leaves it.
get_move(ai, b) ==
    The({
        IF legal_moves = <<>>
        THEN [move |-> NoMove, score |-> -Inf, nodes |-> 0, board |-> b]
        ELSE IF Len(legal_moves) = 1
        THEN [move |-> legal_moves[1], score |-> -Inf, nodes |-> 0,
              board |-> b]
        ELSE The({[move |-> st.best_move, score |-> st.best_score,
                   nodes |-> st.nodes, board |-> st.board] :
                  st \in {FoldRange(LAMBDA s, i :
                                        RootMove(ai, ordered, s, i),
                                    [best_move |-> legal_moves[1],
                                     best_score |-> -Inf,
                                     alpha |-> -Inf, beta |-> Inf,
                                     nodes |-> 0, done |-> FALSE,
                                     board |-> b],
                                    1, Len(ordered)) :
                          ordered \in {order_moves(b, legal_moves)}}}) :
        legal_moves \in {generate_legal_moves(b)}})

-----------------------------------------------------------------------------
(* The game: a Board() driven through make_move *)

\* The caller's Board object.
Live ==
    [board |-> board,
     turn |-> turn,
     history |-> history,
     castling_rights |-> castling_rights,
     en_passant |-> en_passant,
     halfmove_clock |-> halfmove_clock,
     fullmove_number |-> fullmove_number]

\* AggressiveAlphaBetaAI.__init__(depth): the fields of a new AI.  No search
\* has run: none has met a deadline or returned a move.
NewAI(depth) ==
    /\ max_depth = depth
    /\ nodes_evaluated = 0
    /\ deadline = Never
    /\ ai_move = NoMove

\* The default of __init__'s depth.
DefaultDepth == 4

\* The value of twin while the caller has taken no clone: a Board of empty
\* squares.
NoClone ==
    [NewBoard EXCEPT !.board = [r \in 1 .. 8 |-> [c \in 1 .. 8 |-> NoPiece]]]

\* Board(): the fields of a new Board, before any call.
NewGame ==
    /\ board = NewBoard.board
    /\ turn = NewBoard.turn
    /\ history = NewBoard.history
    /\ castling_rights = NewBoard.castling_rights
    /\ en_passant = NewBoard.en_passant
    /\ halfmove_clock = NewBoard.halfmove_clock
    /\ fullmove_number = NewBoard.fullmove_number
    /\ arg = NoMove
    /\ ret = NoCall
    /\ before = clone(NewBoard)
    /\ twin = NoClone
    /\ shared = {}

\* The start: a new Board() and a new AggressiveAlphaBetaAI().
Init == NewGame /\ NewAI(DefaultDepth)

\* make_move comparing the squares of the move only, not its promotion.
MakeMove_squaresOnly(move, legal) ==
    /\ arg' = move
    /\ before' = clone(Live)
    /\ UNCHANGED <<aiVars, shared>>
    /\ IF \E m \in Range(legal) : m.start = move.start /\ m.end = move.end
       THEN \E nb \in {_apply_move(Live, move)} :
                /\ board' = nb.board
                /\ turn' = nb.turn
                /\ history' = nb.history
                /\ castling_rights' = nb.castling_rights
                /\ en_passant' = nb.en_passant
                /\ halfmove_clock' = nb.halfmove_clock
                /\ fullmove_number' = nb.fullmove_number
                /\ twin' = Seen(shared, twin, nb)
                /\ ret' = "True"
       ELSE /\ UNCHANGED <<boardVars, twin>>
            /\ ret' = "False"

\* Board.make_move(move); legal is self.generate_legal_moves().  The call's
\* argument and return value are kept in arg and ret.
MakeMove(move, legal) ==
    /\ arg' = move
    /\ before' = clone(Live)
    /\ UNCHANGED <<aiVars, shared>>
    /\ IF move \in Range(legal)
       THEN \E nb \in {_apply_move(Live, move)} :
                /\ board' = nb.board
                /\ turn' = nb.turn
                /\ history' = nb.history
                /\ castling_rights' = nb.castling_rights
                /\ en_passant' = nb.en_passant
                /\ halfmove_clock' = nb.halfmove_clock
                /\ fullmove_number' = nb.fullmove_number
                /\ twin' = Seen(shared, twin, nb)
                /\ ret' = "True"
       ELSE /\ UNCHANGED <<boardVars, twin>>
            /\ ret' = "False"

(* The moves the caller tries.  Games follow one of the opening lines below,
   named move by move as tests.py names them (Move.__repr__), and may leave
   the line for at most MaxFree moves of any kind. *)

MaxFree == 0

ScholarsMate == <<"e2e4", "e7e5", "d1h5", "b8c6", "f1c4", "g8f6", "h5f7">>

FoolsMate == <<"f2f3", "e7e5", "g2g4", "d8h4">>

WhiteEnPassant == <<"e2e4", "a7a6", "e4e5", "d7d5", "e5d6">>

BlackEnPassant == <<"a2a3", "d7d5", "a3a4", "d5d4", "e2e4", "d4e3">>

KingSideCastles ==
    <<"e2e4", "e7e5", "g1f3", "g8f6", "f1c4", "f8c5", "e1g1", "e8g8">>

QueenSideCastles ==
    <<"d2d4", "d7d5", "b1c3", "b8c6", "c1f4", "c8f5", "d1d2", "d8d7",
      "e1c1", "e8c8">>

LoydStalemate ==
    <<"e2e3", "a7a5", "d1h5", "a8a6", "h5a5", "h7h5", "h2h4", "a6h6",
      "a5c7", "f7f6", "c7d7", "e8f7", "d7b7", "d8d3", "b7b8", "d3h7",
      "b8c8", "f7g6", "c8e6">>

Promotion ==
    <<"a2a4", "b7b5", "a4b5", "a7a6", "b5a6", "c8b7", "a6b7", "d7d6",
      "b7a8=Q">>

\* After d1h5 Black is in check with one legal move, g7g6.
ForcedReply == <<"e2e4", "f7f6", "d1h5", "g7g6">>

\* White may not castle while c5 bears on g1 (after c8a6 and after g8f6),
\* may castle across f1, which a6 bears on (after h7h6), and castles out of
\* the check from b4.
CastlesOutOfCheck ==
    <<"g2g3", "e7e6", "f1g2", "f8c5", "f2f4", "b7b6", "g1f3", "c8a6",
      "e2e4", "g8f6", "d2d4", "h7h6", "h2h3", "c5b4", "e1g1">>

Lines ==
    {ScholarsMate, FoolsMate, WhiteEnPassant, BlackEnPassant,
     KingSideCastles, QueenSideCastles, LoydStalemate, Promotion,
     ForcedReply, CastlesOutOfCheck}

\* The moves played so far, as text.
Played(h) == [i \in 1 .. Len(h) |-> Repr(h[i][1])]

\* The first n moves of text t are the first n moves of some line.
OnLine(t, n) ==
    \E l \in Lines : n <= Len(l) /\ \A i \in 1 .. n : t[i] = l[i]

\* A game that has played t is within MaxFree moves of a line.
Followed(t) ==
    \E n \in 0 .. Len(t) : Len(t) - n <= MaxFree /\ OnLine(t, n)

\* Moves no position of these games accepts.
Junk ==
    {Move(<<6, 4>>, <<3, 4>>, NoPromo), Move(<<1, 0>>, <<0, 0>>, NoPromo)}

\* Moves the caller tries that may be refused: pseudo-legal moves, promotion
\* moves without the promotion letter, the first legal move with a promotion
\* letter it does not have, and junk.
Tried(b, legal) ==
    Range(generate_pseudo_legal_moves(b))
    \cup {Move(m.start, m.end, NoPromo) : m \in Range(legal)}
    \cup {Move(legal[i].start, legal[i].end, "Q") : i \in DOMAIN legal \cap {1}}
    \cup Junk

\* The caller goes on calling make_move while its game can still follow a
\* line or has a free move left.
Active(t) ==
    \/ OnLine(t, Len(t))
    \/ \E n \in 0 .. Len(t) : Len(t) + 1 - n <= MaxFree /\ OnLine(t, n)

\* A game on its line tries the moves of Tried; a game that has left the
\* line tries legal moves only.
Inputs(b, legal) ==
    {m \in Tried(b, legal) :
        IF m \in Range(legal)
        THEN Followed(Append(Played(b.history), Repr(m)))
        ELSE OnLine(Played(b.history), Len(b.history))}

Next ==
    /\ Active(Played(history))
    /\ \E legal \in {generate_legal_moves(Live)} :
           \E move \in Inputs(Live, legal) : MakeMove(move, legal)

Spec == Init /\ [][Next]_vars

(* The engine with the AI: the caller also asks the AI for a move. *)

\* The first n moves of a line.
Prefix(l, n) == SubSeq(l, 1, n)

\* The largest depth an AggressiveAlphaBetaAI is constructed with.
MaxDepth == 1

\* The start: a new Board() and a new AggressiveAlphaBetaAI(depth).
InitAI == NewGame /\ \E depth \in 1 .. MaxDepth : NewAI(depth)

\* The largest number of deadline checks a search that runs out of time
\* passes.
MaxPatience == 3

\* The deadlines of a search: it runs out of time after 0 .. MaxPatience
\* checks, or never.
Deadlines == (0 .. MaxPatience) \cup {Never}

\* The caller asks the AI once a move has been made and the last move of a
\* line is due.
Asked(t) == ret = "True" /\ \E l \in Lines : t = Prefix(l, Len(l) - 1)

\* The last call was get_move.
Searched == ret \in {"Move", "None"}

\* ai.get_move(board), the clock allowing patience deadline checks.
GetMove(patience) ==
    /\ deadline' = patience
    /\ \E r \in {get_move([max_depth |-> max_depth, deadline |-> patience],
                          Live)} :
           /\ ai_move' = r.move
           /\ nodes_evaluated' = r.nodes
           /\ ret' = IF r.move = NoMove THEN "None" ELSE "Move"
           /\ board' = r.board.board
           /\ turn' = r.board.turn
           /\ history' = r.board.history
           /\ castling_rights' = r.board.castling_rights
           /\ en_passant' = r.board.en_passant
           /\ halfmove_clock' = r.board.halfmove_clock
           /\ fullmove_number' = r.board.fullmove_number
    /\ arg' = NoMove
    /\ before' = clone(Live)
    /\ UNCHANGED <<max_depth, cloneVars>>

Search ==
    /\ Asked(Played(history))
    /\ \E patience \in Deadlines : GetMove(patience)

\* alpha_beta_ai_move(board) on a finished game: a caller that does not
\* look at result() first.
SearchOver ==
    /\ ret = "True"
    /\ result(Live) # NoResult
    /\ \E patience \in Deadlines : GetMove(patience)

NextAI == Next \/ Search \/ SearchOver

SpecAI == InitAI /\ [][NextAI]_vars

(* The AI in an endgame: positions of later play, with few men left. *)

\* A Board of a later game: men are its pieces as <<square name, piece>>,
\* side is the side to move, and no castling right is left.  Its history
\* and counters, which no move generation, evaluation or search reads, are
\* those of a new Board.
Position(men, side) ==
    [NewBoard EXCEPT
        !.board = [r \in 1 .. 8 |-> [c \in 1 .. 8 |->
                      IF \E m \in men :
                             m[1] = FileLetter(c - 1) \o RankDigit(9 - r)
                      THEN (CHOOSE m \in men :
                                m[1] = FileLetter(c - 1) \o RankDigit(9 - r))[2]
                      ELSE NoPiece]],
        !.turn = side,
        !.castling_rights = [K |-> FALSE, Q |-> FALSE, k |-> FALSE, q |-> FALSE]]

\* King and pawn against king.
KingAndPawn == {<<"e4", "wK">>, <<"e5", "wP">>, <<"e7", "bK">>}

\* The pawn promotes next move: f7f8=Q is mate, f7f8=R too, and most king
\* moves stalemate.
PawnOnTheSeventh == {<<"g6", "wK">>, <<"f7", "wP">>, <<"h8", "bK">>}

\* Black's king is in check by the pawn.
PawnGivesCheck == {<<"f6", "wK">>, <<"h7", "wP">>, <<"g8", "bK">>}

\* White's pieces on their home squares and six promoted queens against the
\* bare king, which is not in check.
SixNewQueens ==
    {<<FileLetter(c - 1) \o "1", WHITE \o pieces_back[c]>> : c \in 1 .. 8}
    \cup {<<f \o "8", "wQ">> : f \in {"a", "b", "d", "e", "g", "h"}}
    \cup {<<"c5", "bK">>}

\* A pawn on the seventh that may push to b8 or capture on a8.
WhitePromotes ==
    {<<"e1", "wK">>, <<"b7", "wP">>, <<"a8", "bR">>, <<"h8", "bK">>}

\* A pawn on the second that may push to g1 or capture on h1.
BlackPromotes ==
    {<<"e8", "bK">>, <<"g2", "bP">>, <<"h1", "wR">>, <<"a1", "wK">>}

\* The positions the endgame study starts from.
Studies ==
    {Position(KingAndPawn, WHITE), Position(PawnOnTheSeventh, WHITE),
     Position(PawnGivesCheck, BLACK), Position(SixNewQueens, WHITE),
     Position(WhitePromotes, WHITE), Position(BlackPromotes, BLACK)}

\* The largest depth of an AI in the study.
StudyDepth == 3

\* The number of moves played on from a study position.
StudyPlies == 1

\* The AI is asked in endgames of at most MaxMen men.
MaxMen == 3

\* The number of men on the board.
Men(b) == Cardinality({i \in 1 .. 64 : piece_at(b, Squares[i]) # NoPiece})

\* The start of a study: a Board holding one of the positions, and a new
\* AggressiveAlphaBetaAI(depth).
InitStudy ==
    /\ \E s \in Studies :
           /\ board = s.board
           /\ turn = s.turn
           /\ history = s.history
           /\ castling_rights = s.castling_rights
           /\ en_passant = s.en_passant
           /\ halfmove_clock = s.halfmove_clock
           /\ fullmove_number = s.fullmove_number
           /\ before = clone(s)
    /\ arg = NoMove
    /\ ret = NoCall
    /\ twin = NoClone
    /\ shared = {}
    /\ \E depth \in 1 .. StudyDepth : NewAI(depth)

\* board.make_move(move) for a legal move of the position.
StudyMove ==
    /\ Len(history) < StudyPlies
    /\ ret \in {NoCall, "True"}
    /\ \E legal \in {generate_legal_moves(Live)} :
           \E move \in Range(legal) : MakeMove(move, legal)

\* ai.get_move(board) in the position the study starts from, or in the one
\* after a move was made in it.
StudySearch ==
    /\ ret \in {NoCall, "True"}
    /\ Men(Live) <= MaxMen
    /\ \E patience \in Deadlines : GetMove(patience)

NextStudy == StudyMove \/ StudySearch

SpecStudy == InitStudy /\ [][NextStudy]_vars

(* The engine with a clone: the caller takes a clone of its Board, as
   get_move and _is_legal do, and applies a move to it. *)

\* clone = board.clone()
TakeClone ==
    /\ Asked(Played(history))
    /\ twin' = clone(Live)
    /\ shared' = clone_aliases
    /\ arg' = NoMove
    /\ ret' = "Cloned"
    /\ before' = clone(Live)
    /\ UNCHANGED <<boardVars, aiVars>>

\* clone._apply_move(move), for a pseudo-legal move as in _is_legal: the
\* clone changes, and with it what the caller's Board has in common with it.
ApplyToClone ==
    /\ ret = "Cloned"
    /\ \E move \in Range(generate_pseudo_legal_moves(twin)) :
           \E nb \in {_apply_move(twin, move)} :
               /\ twin' = nb
               /\ \E seen \in {Seen(shared, Live, nb)} :
                      /\ board' = seen.board
                      /\ history' = seen.history
                      /\ castling_rights' = seen.castling_rights
               /\ arg' = move
    /\ ret' = "Applied"
    /\ before' = clone(Live)
    /\ UNCHANGED <<turn, en_passant, halfmove_clock, fullmove_number,
                   aiVars, shared>>

NextClone == Next \/ TakeClone \/ ApplyToClone

SpecClone == Init /\ [][NextClone]_vars

-----------------------------------------------------------------------------
(* Properties of the rules engine *)

\* The squares holding the piece p.
SquaresOf(b, p) == {i \in 1 .. 64 : piece_at(b, Squares[i]) = p}

\* The last make_move call was accepted.
Accepted == arg # NoMove /\ ret = "True"

\* The piece the last accepted move moved.
Mover == piece_at(before, arg.start)

\* C1: every move generate_legal_moves() returns, applied to a clone of the
\* position, leaves the king of the side that moved unattacked (and present,
\* so that is_in_check does not raise).
C1_LegalMovesLeaveKingSafe ==
    \A mv \in Range(generate_legal_moves(Live)) :
        \E c \in {_apply_move(clone(Live), mv)} :
            /\ king_position(c, turn) # KingMissing
            /\ ~is_in_check(c, turn)

\* A position where the filter acts: the side to move has legal moves, and a
\* pseudo-legal move that would leave its king attacked.
C1_Witness ==
    \E legal \in {generate_legal_moves(Live)} :
        /\ legal # <<>>
        /\ \E mv \in Range(generate_pseudo_legal_moves(Live)) :
               /\ mv \notin Range(legal)
               /\ is_in_check(_apply_move(clone(Live), mv), turn)

\* C2: make_move(m) returns True and applies m exactly when m is a member of
\* generate_legal_moves() of the position it is called on; for every other m
\* it returns False and leaves every field of the Board as it was.
C2_MakeMoveAppliesExactlyLegalMoves ==
    arg # NoMove =>
        IF arg \in Range(generate_legal_moves(before))
        THEN ret = "True" /\ Live = _apply_move(before, arg)
        ELSE ret = "False" /\ Live = before

\* A pawn move onto the last rank without a promotion letter was refused
\* where the same move with a letter is legal.
C2_Witness ==
    /\ arg # NoMove
    /\ ret = "False"
    /\ arg.promotion = NoPromo
    /\ arg.end[1] = 0
    /\ piece_at(Live, arg.start) = "wP"
    /\ Move(arg.start, arg.end, "Q") \in Range(generate_legal_moves(Live))

\* C3: the board holds exactly one king of each colour, and so does every
\* clone _is_legal builds: king_position never raises.
C3_OneKingOfEachColour ==
    /\ \A color \in {WHITE, BLACK} :
           Cardinality(SquaresOf(Live, color \o "K")) = 1
    /\ \A mv \in Range(generate_pseudo_legal_moves(Live)) :
           king_position(_apply_move(clone(Live), mv), turn) # KingMissing

\* The black king has left its home square under check, after captures.
C3_Witness ==
    /\ At(board, 0, 4) # "bK"
    /\ is_in_check(before, BLACK)
    /\ \E i \in DOMAIN history : history[i][2] # NoPiece

\* The last accepted move was an en-passant capture: a pawn moved diagonally
\* onto the empty en-passant square.
EnPassantPlayed ==
    /\ Accepted
    /\ KindOf[Mover] = "P"
    /\ before.en_passant = arg.end
    /\ piece_at(before, arg.end) = NoPiece

\* C4: an en-passant capture removes the enemy pawn on the square behind the
\* destination (destination file, the capturing pawn's starting rank) and
\* puts the capturing pawn on the destination.
C4_EnPassantRemovesThePawnBehind ==
    EnPassantPlayed =>
        /\ At(board, arg.start[1], arg.end[2]) = NoPiece
        /\ piece_at(Live, arg.end) = Mover

\* C5: result() is None exactly when the side to move has a legal move;
\* with none it is the draw when the side to move is not in check and
\* otherwise the win of the side not to move.
C5_ResultIsMateOrStalemateOnly ==
    \E legal \in {generate_legal_moves(Live)}, res \in {result(Live)} :
        /\ res = NoResult <=> legal # <<>>
        /\ legal = <<>> /\ ~is_in_check(Live, turn) => res = "1/2-1/2"
        /\ legal = <<>> /\ is_in_check(Live, turn) /\ turn = BLACK =>
               res = "1-0"
        /\ legal = <<>> /\ is_in_check(Live, turn) /\ turn = WHITE =>
               res = "0-1"

\* A stalemate with the clock running: no legal move, no check.
C5_Witness ==
    /\ generate_legal_moves(Live) = <<>>
    /\ ~is_in_check(Live, turn)
    /\ halfmove_clock > 0

\* C6: a new Board has exactly 20 legal moves, 16 of pawns and 4 of knights,
\* no two equal.
C6_TwentyMovesAtTheStart ==
    history = <<>> =>
        \E legal \in {generate_legal_moves(Live)} :
            /\ Len(legal) = 20
            /\ Cardinality(Range(legal)) = 20
            /\ Cardinality({i \in 1 .. 20 :
                   KindOf[piece_at(Live, legal[i].start)] = "P"}) = 16
            /\ Cardinality({i \in 1 .. 20 :
                   KindOf[piece_at(Live, legal[i].start)] = "N"}) = 4

\* The new Board, after make_move has generated its moves once.
C6_Witness == history = <<>> /\ arg # NoMove

\* C7: along e2e4 e7e5 d1h5 b8c6 f1c4 g8f6 h5f7 each move is legal when it
\* is played and is accepted by make_move, result() is None before the last
\* move and "1-0" after it.
C7_ScholarsMateLine ==
    /\ \A n \in 0 .. Len(ScholarsMate) - 1 :
           Played(history) = Prefix(ScholarsMate, n) =>
               /\ \E mv \in Range(generate_legal_moves(Live)) :
                      Repr(mv) = ScholarsMate[n + 1]
               /\ result(Live) = NoResult
    /\ \A n \in 1 .. Len(ScholarsMate) :
           /\ arg # NoMove
           /\ Played(before.history) = Prefix(ScholarsMate, n - 1)
           /\ Repr(arg) = ScholarsMate[n]
           => ret = "True" /\ Played(history) = Prefix(ScholarsMate, n)
    /\ Played(history) = ScholarsMate => result(Live) = "1-0"

\* The line has been played to its end.
C7_Witness == Played(history) = ScholarsMate /\ ret = "True"

\* The last accepted move was a king move of two files.
CastlingPlayed ==
    Accepted /\ KindOf[Mover] = "K" /\ Abs(arg.end[2] - arg.start[2]) = 2

\* C8: a castling king move puts the king on the g-file and the h-rook on
\* the f-file, or the king on the c-file and the a-rook on the d-file, of
\* the mover's back rank; the king's and the rook's origin squares are then
\* empty and both castling rights of the mover are cleared.
C8_CastlingMovesKingAndRook ==
    CastlingPlayed =>
        LET color == ColorOf[Mover]
            rank == IF color = WHITE THEN 7 ELSE 0
            kingSide == arg.end[2] = 6
        IN  /\ arg.start = <<rank, 4>>
            /\ arg.end \in {<<rank, 6>>, <<rank, 2>>}
            /\ At(board, rank, 4) = NoPiece
            /\ At(board, rank, IF kingSide THEN 6 ELSE 2) = color \o "K"
            /\ At(board, rank, IF kingSide THEN 5 ELSE 3) = color \o "R"
            /\ At(board, rank, IF kingSide THEN 7 ELSE 0) = NoPiece
            /\ At(before.board, rank, IF kingSide THEN 7 ELSE 0) = color \o "R"
            /\ IF color = WHITE
               THEN ~castling_rights.K /\ ~castling_rights.Q
               ELSE ~castling_rights.k /\ ~castling_rights.q

\* Black has just castled queen-side, after White did.
C8_Witness ==
    /\ CastlingPlayed
    /\ arg = Move(<<0, 4>>, <<0, 2>>, NoPromo)
    /\ At(board, 7, 2) = "wK"

-----------------------------------------------------------------------------
(* Properties of the search *)

\* The last call was a get_move whose deadline never expired.
Completed == Searched /\ deadline = Never

\* The position after move on the position get_move was called on.
After(move) == _apply_move(clone(before), move)

\* C9: in a completed search with max_depth >= 1, when the side to move has
\* a legal move that checkmates at once, get_move returns a checkmating
\* move, for White and for Black at the root.
C9_MateInOneIsPlayed ==
    Completed /\ max_depth >= 1 =>
        \E legal \in {generate_legal_moves(before)} :
            (\E mv \in Range(legal) : is_checkmate(After(mv))) =>
                ai_move \in Range(legal) /\ is_checkmate(After(ai_move))

\* The largest member of a finite set of integers.
Largest(S) == CHOOSE x \in S : \A y \in S : y <= x

\* The smallest member of a finite set of integers.
Smallest(S) == CHOOSE x \in S : \A y \in S : x <= y

RECURSIVE Minimax(_, _, _)
\* The depth-limited minimax value of position b for the side `root`, depth
\* plies from the horizon: mates and leaf evaluations are signed in favour
\* of root, root's nodes maximise and the opponent's nodes minimise.
Minimax(b, depth, root) ==
    The({
        IF res = "1/2-1/2" THEN 0
        ELSE IF res # NoResult
        THEN (IF (res = "1-0") = (root = WHITE) THEN 1 ELSE -1)
             * (10000 - (max_depth - depth))
        ELSE IF depth <= 0
        THEN (IF root = WHITE THEN 1 ELSE -1) * evaluate_position(b)
        ELSE The({
            IF b.turn = root THEN Largest(values) ELSE Smallest(values) :
            values \in {{Minimax(_apply_move(clone(b), mv), depth - 1, root) :
                         mv \in Range(generate_legal_moves(b))}}}) :
        res \in {result(b)}})

\* C10: in a completed search the move get_move returns attains the
\* depth-limited minimax optimum for the side to move at the root: it
\* maximises, over the legal moves, the minimax value of the position the
\* move leads to.
C10_ReturnedMoveAttainsMinimax ==
    Completed /\ ai_move # NoMove =>
        \E values \in {[mv \in Range(generate_legal_moves(before)) |->
                           Minimax(After(mv), max_depth - 1, before.turn)]} :
            \A mv \in DOMAIN values : values[mv] <= values[ai_move]

\* C12: whenever the position has a legal move, get_move returns a member
\* of generate_legal_moves() of that position, wherever the deadline expires:
\* before the first root move, between root moves, or inside an alpha_beta
\* call.
C12_TimedOutSearchReturnsLegalMove ==
    Searched =>
        \E legal \in {generate_legal_moves(before)} :
            legal # <<>> => ai_move \in Range(legal)

\* A search whose deadline expired inside its first alpha_beta call: the
\* root's check found time left, the call's own check did not.
C12_Witness ==
    /\ Searched
    /\ deadline = 1
    /\ nodes_evaluated = 1
    /\ ai_move \in Range(generate_legal_moves(before))

\* C13: get_move returns None exactly when the position has no legal move,
\* and with exactly one legal move it returns that move without a search:
\* alpha_beta is not called, nodes_evaluated stays 0.
C13_NoneOrSoleMoveWithoutSearch ==
    Searched =>
        \E legal \in {generate_legal_moves(before)} :
            /\ ret = "None" <=> legal = <<>>
            /\ ai_move = NoMove <=> legal = <<>>
            /\ Len(legal) = 1 => ai_move = legal[1] /\ nodes_evaluated = 0

\* get_move was asked where one move is legal, with all the time it needs.
C13_Witness ==
    /\ Completed
    /\ Len(generate_legal_moves(before)) = 1
    /\ ret = "Move"
    /\ nodes_evaluated = 0

\* get_move was asked in a finished game, and returned None.
C13_NoneReturned ==
    Searched /\ ret = "None" /\ generate_legal_moves(before) = <<>>

\* C14: get_move leaves the Board passed to it as it was: squares, turn,
\* castling_rights, en_passant, halfmove_clock, fullmove_number and history
\* are after the call what they were before it, whether or not the deadline
\* expired.
C14_SearchLeavesTheBoardUnchanged ==
    Searched =>
        /\ board = before.board
        /\ turn = before.turn
        /\ castling_rights = before.castling_rights
        /\ en_passant = before.en_passant
        /\ halfmove_clock = before.halfmove_clock
        /\ fullmove_number = before.fullmove_number
        /\ history = before.history

\* A search that tried several root moves and ran out of time.
C14_Witness ==
    /\ Searched
    /\ deadline = MaxPatience
    /\ nodes_evaluated >= 2
    /\ Live = before

\* The AI of the last search, as a search with no deadline sees it.
Patient == [max_depth |-> max_depth, deadline |-> Never]

\* A Board equal to b in squares, turn, castling rights and en-passant
\* target, reached by another game: its history and counters differ.
Transposed(b) ==
    [b EXCEPT !.history = <<>>, !.halfmove_clock = 0, !.fullmove_number = 1]

\* The score the root obtains for each of the ordered moves when it searches
\* the move with the full window.
RootScores(b, ordered) ==
    LET score(mv) ==
            <<-alpha_beta(Patient, _apply_move(clone(b), mv), max_depth - 1,
                          -Inf, Inf, FALSE, 0, 0).score>>
    IN  ConcatMap(score, ordered, 1)

\* C15: a completed search returns the same move on an equal position
\* (same squares, turn, castling rights and en-passant target, whatever its
\* history and counters), and of the root moves with the best score it
\* returns the first in the order of order_moves.
C15_SameMoveOnEqualPositions ==
    Completed /\ ai_move # NoMove =>
        /\ get_move(Patient, Transposed(before)).move = ai_move
        /\ \E legal \in {generate_legal_moves(before)} :
               Len(legal) >= 2 =>
                   \E ordered \in {order_moves(before, legal)} :
                       \E scores \in {RootScores(before, ordered)} :
                           \E i \in 1 .. Len(ordered) :
                               /\ ordered[i] = ai_move
                               /\ \A j \in 1 .. Len(ordered) :
                                      scores[j] <= scores[i]
                               /\ \A j \in 1 .. i - 1 : scores[j] < scores[i]

\* A completed search in which two root moves had the best score: after
\* Black's d8d7 in the queen-side castling line, c6d4 and f5c2.
C15_Witness ==
    /\ Completed
    /\ Played(history) = Prefix(QueenSideCastles, 9)
    /\ ai_move = Move(<<2, 2>>, <<4, 3>>, NoPromo)
    /\ -alpha_beta(Patient, After(ai_move), max_depth - 1,
                   -Inf, Inf, FALSE, 0, 0).score
       = -alpha_beta(Patient, After(Move(<<3, 5>>, <<6, 2>>, NoPromo)),
                     max_depth - 1, -Inf, Inf, FALSE, 0, 0).score

\* The score the root of the last search obtains for the root move mv: the
\* negation, as in get_move, of alpha_beta on the position after it.
RootScore(mv) ==
    -alpha_beta(Patient, After(mv), max_depth - 1, -Inf, Inf, FALSE, 0, 0).score

MoversMaterial(b) ==
    IF b.turn = WHITE
    THEN Material(b, WHITE) - Material(b, BLACK)
    ELSE Material(b, BLACK) - Material(b, WHITE)

\* C18: at every leaf of a completed depth-1 search where the material
\* difference is at most 500, evaluate_position is the material of the side
\* to move minus the material of its opponent, plus 5 for each legal move
\* of the side to move.
C18_EvaluationIsFromTheMoversSide ==
    Completed =>
        \A mv \in Range(generate_legal_moves(before)) :
            \E c \in {After(mv)} :
                \E legal \in {generate_legal_moves(c)} :
                    legal # <<>> /\ Abs(MoversMaterial(c)) <= 500 =>
                        evaluate_position(c)
                        = MoversMaterial(c) + 5 * Len(legal)

\* The root loop of get_move(ai, b) after its first k rounds.
RootRounds(ai, b, k) ==
    LET legal_moves == generate_legal_moves(b)
        ordered == order_moves(b, legal_moves)
    IN  FoldRange(LAMBDA s, i : RootMove(ai, ordered, s, i),
                  [best_move |-> legal_moves[1], best_score |-> -Inf,
                   alpha |-> -Inf, beta |-> Inf, nodes |-> 0,
                   done |-> FALSE, board |-> b],
                  1, k)

\* The deadline of the last search expired inside round i of its root loop:
\* the round's own check found time left, a check in its subtree did not.
ExpiredInRound(i) ==
    \E st \in {RootRounds([max_depth |-> max_depth, deadline |-> deadline],
                           before, i)} :
        ~st.done /\ i + st.nodes > deadline

\* C19: when the deadline expires inside the subtree of a root move, the
\* move returned is the best of the root moves searched in full before it:
\* the score of the interrupted move does not replace it.
C19_TimedOutScoreIsNotTrusted ==
    Searched /\ deadline # Never =>
        \A i \in 2 .. Min(deadline, Len(generate_legal_moves(before))) :
            ExpiredInRound(i) =>
                ai_move =
                    RootRounds([max_depth |-> max_depth,
                                deadline |-> deadline], before, i - 1).best_move

\* C16: clone() returns a Board equal to the source in every field and
\* leaves the source as it was; _apply_move on the clone then changes no
\* field of the source, and a move made on the source changes no field of
\* the clone.
C16_CloneIsIndependent ==
    [][/\ ret' = "Cloned" => twin' = Live /\ Live' = Live
       /\ ret' = "Applied" => Live' = Live
       /\ ret' \in {"True", "False"} => twin' = twin]_vars

\* A king move was applied to a clone: the clone has lost castling rights
\* the source still has, and has a longer history.
C16_Witness ==
    /\ ret = "Applied"
    /\ twin.castling_rights # castling_rights
    /\ twin.board # board
    /\ Len(twin.history) = Len(history) + 1

\* A move was made on the source after a clone of it was taken.
C16_SourceMoved ==
    /\ ret = "True"
    /\ twin # NoClone
    /\ Len(history) = Len(twin.history) + 1

RECURSIVE Unpruned(_, _, _)
\* alpha_beta with every cutoff disabled and no deadline: the score of the
\* node and the number of nodes of its whole subtree.
Unpruned(b, depth, maximizing_player) ==
    The({
        IF res # NoResult
        THEN [score |-> MateScore(Patient, res, depth, maximizing_player),
              nodes |-> 1]
        ELSE IF depth <= 0
        THEN [score |-> evaluate_position(b), nodes |-> 1]
        ELSE The({
            [score |-> IF maximizing_player
                       THEN Largest({kids[i].score : i \in DOMAIN kids})
                       ELSE Smallest({kids[i].score : i \in DOMAIN kids}),
             nodes |-> 1 + SumOver(LAMBDA i : kids[i].nodes, 1, Len(kids))] :
            kids \in {ConcatMap(LAMBDA mv :
                                    <<Unpruned(_apply_move(clone(b), mv),
                                               depth - 1, ~maximizing_player)>>,
                                generate_legal_moves(b), 1)}}) :
        res \in {result(b)}})

\* get_move with every cutoff disabled, over the same ordered root moves:
\* the first of the moves with the largest score, that score, and the
\* number of nodes of the whole tree.
UnprunedRoot(b) ==
    The({
        The({[move |-> ordered[CHOOSE i \in DOMAIN kids :
                                  /\ \A j \in DOMAIN kids :
                                         kids[j].score >= kids[i].score
                                  /\ \A j \in 1 .. i - 1 :
                                         kids[j].score > kids[i].score],
              score |-> -Smallest({kids[i].score : i \in DOMAIN kids}),
              nodes |-> SumOver(LAMBDA i : kids[i].nodes, 1, Len(kids))] :
             kids \in {ConcatMap(LAMBDA mv :
                                     <<Unpruned(_apply_move(clone(b), mv),
                                                max_depth - 1, FALSE)>>,
                                 ordered, 1)}}) :
        ordered \in {order_moves(b, generate_legal_moves(b))}})

\* C11: a completed search returns the move and the best score that the
\* same recursion returns over the same ordered tree with every cutoff
\* disabled, and evaluates no more nodes than it.
C11_PruningKeepsMoveAndScore ==
    Completed /\ Len(generate_legal_moves(before)) >= 2 =>
        \E r \in {get_move(Patient, before)}, u \in {UnprunedRoot(before)} :
            /\ r.move = ai_move
            /\ r.nodes = nodes_evaluated
            /\ r.move = u.move
            /\ r.score = u.score
            /\ r.nodes <= u.nodes

\* A completed search of depth 3 in which cutoffs happened: it evaluated
\* fewer nodes than the tree has.
C11_Witness ==
    /\ Completed
    /\ max_depth = 3
    /\ Len(generate_legal_moves(before)) >= 2
    /\ nodes_evaluated < UnprunedRoot(before).nodes
    /\ ai_move = UnprunedRoot(before).move

\* C20: in every position the absolute value of evaluate_position is smaller
\* than 10000 - max_depth, the smallest magnitude of a mate score.
C20_EvaluationBelowMateScores ==
    Abs(evaluate_position(Live)) < 10000 - max_depth

-----------------------------------------------------------------------------
(* Properties of the fields _apply_move keeps *)

\* The last move applied to the Board.
LastMove == history[Len(history)][1]

\* The last move applied was a pawn's advance of two ranks: the piece on its
\* end square is a pawn, and it came two rows along its file.
DoublePushed ==
    /\ history # <<>>
    /\ piece_at(Live, LastMove.end) # NoPiece
    /\ KindOf[piece_at(Live, LastMove.end)] = "P"
    /\ LastMove.start[2] = LastMove.end[2]
    /\ Abs(LastMove.end[1] - LastMove.start[1]) = 2

\* The move is an en-passant capture in b: a pawn goes diagonally onto an
\* empty square.
IsEnPassant(b, mv) ==
    /\ KindOf[piece_at(b, mv.start)] = "P"
    /\ mv.start[2] # mv.end[2]
    /\ piece_at(b, mv.end) = NoPiece

\* C21: en_passant is set exactly when the last applied move was a pawn's
\* advance of two ranks, and then it is the empty square the pawn skipped;
\* every other move, the en-passant capture included, clears it; and
\* generate_legal_moves offers an en-passant capture only onto that square,
\* on the move after the double push, to pawns of the other side.
C21_EnPassantOnlyAfterDoublePush ==
    /\ en_passant # NoSquare <=> DoublePushed
    /\ DoublePushed =>
           /\ en_passant = <<(LastMove.start[1] + LastMove.end[1]) \div 2,
                             LastMove.end[2]>>
           /\ piece_at(Live, en_passant) = NoPiece
    /\ EnPassantPlayed => en_passant = NoSquare
    /\ \A mv \in Range(generate_legal_moves(Live)) :
           IsEnPassant(Live, mv) =>
               /\ DoublePushed
               /\ mv.end = en_passant
               /\ ColorOf[piece_at(Live, mv.start)] = turn
               /\ ColorOf[piece_at(Live, LastMove.end)] = Opponent(turn)

\* The move after a double push: the en-passant capture is offered.
C21_Witness ==
    /\ DoublePushed
    /\ \E mv \in Range(generate_legal_moves(Live)) : IsEnPassant(Live, mv)

\* The en-passant capture has been played, and en_passant is cleared.
C21_CapturePlayed == EnPassantPlayed /\ en_passant = NoSquare

\* The names of the four castling rights.
Rights == {"K", "Q", "k", "q"}

\* The colour a right belongs to.
RightColor(k) == IF k \in {"K", "Q"} THEN WHITE ELSE BLACK

\* The home square of the king of a right, and the corner of its rook.
KingHome(k) == <<IF RightColor(k) = WHITE THEN 7 ELSE 0, 4>>

RookCorner(k) ==
    <<IF RightColor(k) = WHITE THEN 7 ELSE 0, IF k \in {"K", "k"} THEN 7 ELSE 0>>

\* C22: castling rights only go from True to False: no make_move call sets
\* one, a king move clears both rights of its colour, a rook leaving its
\* corner or captured on it clears the right of that corner; so a right
\* that is True has its king on the e-file home square and its rook on the
\* corner.
C22_CastlingRightsOnlyFall ==
    \A k \in Rights :
        /\ castling_rights[k] => before.castling_rights[k]
        /\ Accepted /\ Mover = RightColor(k) \o "K" => ~castling_rights[k]
        /\ Accepted /\ Mover = RightColor(k) \o "R"
              /\ arg.start = RookCorner(k) => ~castling_rights[k]
        /\ Accepted /\ piece_at(before, arg.end) = RightColor(k) \o "R"
              /\ arg.end = RookCorner(k) => ~castling_rights[k]
        /\ castling_rights[k] =>
               /\ piece_at(Live, KingHome(k)) = RightColor(k) \o "K"
               /\ piece_at(Live, RookCorner(k)) = RightColor(k) \o "R"

\* The rook on a8 has just been captured: Black's queen-side right is gone,
\* the king-side right is still there.
C22_Witness ==
    /\ Accepted
    /\ arg.end = RookCorner("q")
    /\ piece_at(before, arg.end) = "bR"
    /\ before.castling_rights.q
    /\ ~castling_rights.q
    /\ castling_rights.k

\* A rook has just left its corner.
C22_RookLeft ==
    /\ Accepted
    /\ Mover = "bR"
    /\ arg.start = RookCorner("q")
    /\ before.castling_rights.q
    /\ ~castling_rights.q

\* The king's move that castles with the right k.
CastleMove(k) ==
    Move(KingHome(k),
         <<KingHome(k)[1], IF k \in {"K", "k"} THEN 6 ELSE 2>>, NoPromo)

\* The squares between the king and the rook of the right k.
Between(k) ==
    {<<KingHome(k)[1], c>> :
        c \in IF k \in {"K", "k"} THEN {5, 6} ELSE {1, 2, 3}}

\* The square the king crosses when it castles with the right k.
Crossed(k) == <<KingHome(k)[1], IF k \in {"K", "k"} THEN 5 ELSE 3>>

\* generate_legal_moves() of the position holds the castling move of k.
CastleOffered(k) == CastleMove(k) \in Range(generate_legal_moves(Live))

\* C23: for the side to move, generate_legal_moves holds a castling move
\* exactly when its right is set, the squares between king and rook are
\* empty, and the king is not attacked on its landing square once the move
\* is made; a check on the king or an attack on the square it crosses does
\* not withhold it.
C23_CastlingNeedsRightEmptySquaresSafeLanding ==
    \A k \in {r \in Rights : RightColor(r) = turn} :
        CastleOffered(k) <=>
            /\ castling_rights[k]
            /\ \A sq \in Between(k) : piece_at(Live, sq) = NoPiece
            /\ ~_square_attacked(_apply_move(clone(Live), CastleMove(k)),
                                 CastleMove(k).end, Opponent(turn))

\* White is in check, f1 is attacked, and e1g1 is offered.
C23_Witness ==
    /\ turn = WHITE
    /\ is_in_check(Live, WHITE)
    /\ _square_attacked(Live, Crossed("K"), BLACK)
    /\ CastleOffered("K")

\* White is not in check, f1 is attacked, and e1g1 is offered.
C23_AcrossAnAttackedSquare ==
    /\ turn = WHITE
    /\ ~is_in_check(Live, WHITE)
    /\ _square_attacked(Live, Crossed("K"), BLACK)
    /\ CastleOffered("K")

\* The right is set and the squares are empty, but g1 is attacked: e1g1 is
\* not offered.
C23_Withheld ==
    /\ turn = WHITE
    /\ castling_rights.K
    /\ \A sq \in Between("K") : piece_at(Live, sq) = NoPiece
    /\ ~CastleOffered("K")

\* The squares strictly between two squares of one rank, file or diagonal.
Along(from, to) ==
    LET dr == to[1] - from[1]
        dc == to[2] - from[2]
        n == Max(Abs(dr), Abs(dc))
    IN  {<<from[1] + k * (dr \div n), from[2] + k * (dc \div n)>> :
            k \in 1 .. n - 1}

\* The rules of chess: the piece standing on from attacks the square to.
Attacks(b, from, to) ==
    LET piece == piece_at(b, from)
        dr == to[1] - from[1]
        dc == to[2] - from[2]
        open == \A sq \in Along(from, to) : piece_at(b, sq) = NoPiece
        diagonal == Abs(dr) = Abs(dc) /\ dr # 0
        straight == (dr = 0) # (dc = 0)
    IN  CASE KindOf[piece] = "P" ->
               /\ dr = (IF ColorOf[piece] = WHITE THEN -1 ELSE 1)
               /\ Abs(dc) = 1
          [] KindOf[piece] = "N" ->
               {Abs(dr), Abs(dc)} = {1, 2}
          [] KindOf[piece] = "K" ->
               Max(Abs(dr), Abs(dc)) = 1
          [] KindOf[piece] = "B" -> diagonal /\ open
          [] KindOf[piece] = "R" -> straight /\ open
          [] KindOf[piece] = "Q" -> (diagonal \/ straight) /\ open

\* The pieces of the other colour that attack the king of color.
Checkers(b, color) ==
    {i \in 1 .. 64 :
        /\ piece_at(b, Squares[i]) # NoPiece
        /\ ColorOf[piece_at(b, Squares[i])] = Opponent(color)
        /\ Attacks(b, Squares[i], king_position(b, color))}

\* The Board and every clone _is_legal builds from it.
Tested ==
    {Live} \cup {_apply_move(clone(Live), mv) :
                    mv \in Range(generate_pseudo_legal_moves(Live))}

\* C24: is_in_check(color) is true exactly when a piece of the other colour
\* attacks the square of color's king by the rules of chess: a pawn from a
\* diagonal neighbour behind which it advances, a knight by its jump, a
\* bishop, rook or queen along an open line of its kind, a king from a
\* neighbouring square; never a pawn by its push.
C24_CheckIsAttackOnTheKing ==
    \A b \in Tested : \A color \in {WHITE, BLACK} :
        is_in_check(b, color) <=> Checkers(b, color) # {}

\* The side to move is in check.
C24_Witness ==
    /\ history # <<>>
    /\ is_in_check(Live, turn)
    /\ Checkers(Live, turn) # {}

\* A move that _is_legal refuses because a pawn would attack the king.
C24_PawnWouldCheck ==
    \E b \in Tested : \E i \in Checkers(b, turn) :
        KindOf[piece_at(b, Squares[i])] = "P"

\* The move takes a pawn of b onto the first or the last row.
ReachesLastRank(b, mv) ==
    /\ piece_at(b, mv.start) # NoPiece
    /\ KindOf[piece_at(b, mv.start)] = "P"
    /\ mv.end[1] \in {0, 7}

\* In the list of moves, the pawn moves onto the last rank come as the four
\* promotions of each start and end square, each once, none without letter.
FourPromotions(b, moves) ==
    \A i \in DOMAIN moves :
        ReachesLastRank(b, moves[i]) =>
            /\ moves[i].promotion # NoPromo
            /\ \A promo \in Range(PROMOS) :
                   Cardinality({j \in DOMAIN moves :
                       moves[j] = Move(moves[i].start, moves[i].end, promo)})
                       = 1
            /\ Cardinality({j \in DOMAIN moves :
                   /\ moves[j].start = moves[i].start
                   /\ moves[j].end = moves[i].end}) = 4

\* C25: every pawn move onto the last rank, by push or by capture, is
\* generated as exactly the four moves with promotion Q, R, B and N and
\* never without promotion; applying one puts a piece of the pawn's colour
\* and of the chosen kind on the end square; and no pawn stands on row 0 or
\* row 7.
C25_PawnsPromoteOnTheLastRank ==
    /\ FourPromotions(Live, generate_pseudo_legal_moves(Live))
    /\ FourPromotions(Live, generate_legal_moves(Live))
    /\ \A mv \in Range(generate_legal_moves(Live)) :
           ReachesLastRank(Live, mv) =>
               piece_at(_apply_move(clone(Live), mv), mv.end)
                   = ColorOf[piece_at(Live, mv.start)] \o mv.promotion
    /\ Accepted /\ arg.promotion # NoPromo =>
           piece_at(Live, arg.end) = ColorOf[Mover] \o arg.promotion
    /\ \A i \in 1 .. 64 :
           Squares[i][1] \in {0, 7} =>
               piece_at(Live, Squares[i]) \notin {"wP", "bP"}

\* A pawn has been promoted to a knight by a push.
C25_Witness ==
    /\ Accepted
    /\ arg.promotion = "N"
    /\ arg.start[2] = arg.end[2]
    /\ piece_at(Live, arg.end) = ColorOf[Mover] \o "N"

\* A pawn can promote by push and by capture: eight legal moves of it.
C25_PushAndCapture ==
    \E legal \in {generate_legal_moves(Live)} :
        Cardinality({i \in DOMAIN legal :
            /\ ReachesLastRank(Live, legal[i])
            /\ piece_at(Live, legal[i].start) = "bP"}) = 8

\* The game replayed from a new Board over history, counting the moves
\* since the last move of a pawn or onto an occupied square.
Replayed ==
    LET step(st, i) ==
            LET mv == history[i][1]
            IN  [b |-> _apply_move(st.b, mv),
                 since |-> IF \/ KindOf[piece_at(st.b, mv.start)] = "P"
                              \/ piece_at(st.b, mv.end) # NoPiece
                           THEN 0
                           ELSE st.since + 1]
    IN  FoldRange(step, [b |-> NewBoard, since |-> 0], 1, Len(history))

\* C26: after n applied moves turn is White iff n is even, fullmove_number
\* is 1 + n \div 2, halfmove_clock is the number of moves since the last
\* pawn move or capture, and history has n entries: one more with each
\* accepted make_move, none with a refused one.
C26_CountersFollowTheMoves ==
    /\ turn = WHITE <=> Len(history) % 2 = 0
    /\ fullmove_number = 1 + Len(history) \div 2
    /\ halfmove_clock = Replayed.since
    /\ Replayed.b.board = board
    /\ arg # NoMove =>
           Len(history) = Len(before.history) + (IF ret = "True" THEN 1 ELSE 0)

\* A piece, not a pawn, has captured with the clock running, in the fourth
\* move or later: the clock is at 0 again.
C26_Witness ==
    /\ Accepted
    /\ KindOf[Mover] # "P"
    /\ piece_at(before, arg.end) # NoPiece
    /\ before.halfmove_clock > 0
    /\ halfmove_clock = 0
    /\ fullmove_number > 3

\* The clock has run for four moves.
C26_ClockRuns == halfmove_clock = 4 /\ turn = WHITE

=============================================================================
